---- MODULE Spec2Model ----
(***************************************************************************)
(* build_dataset.py: load the raw posts JSON, build the per-post table,    *)
(* write posts.csv, aggregate the per-user table, write users.csv.         *)
(*                                                                         *)
(* A DataFrame is a record [columns, rows]; a row is a function from       *)
(* column names to cells.  Text cells are strings, with None (a JSON null) *)
(* and NaN (a key some record lacks) the two missing values.  Count cells  *)
(* are records [k, n]: k = "int" a number, k = "str" the decimal text of n *)
(* (a count exported as a JSON string), k = "na" a missing value.  Parsed  *)
(* timestamps are integers (an instant, in days), NaT the missing one.     *)
(***************************************************************************)
EXTENDS Integers, Sequences, FiniteSets, TLC

VARIABLES pc, raw_json, df_raw, df_posts, df_users, posts_csv, users_csv, error

vars == <<pc, raw_json, df_raw, df_posts, df_users, posts_csv, users_csv, error>>

(* ------------------------------ bounds --------------------------------- *)

MaxRows == 3

(* ------------------------------ values --------------------------------- *)

None == "<None>"
NaN == "<NaN>"
NaT == -1

isna(x) == x \in {None, NaN}

Num(n) == [k |-> "int", n |-> n]
Txt(n) == [k |-> "str", n |-> n]
NaNum == [k |-> "na", n |-> 0]

T1 == "2024-01-01T00:00:00.000Z"
T2 == "2024-01-02T00:00:00.000Z"

\* Python's order on the strings the inputs draw from (by code point).
StrOrder == <<"1001", "1002", "Alice A", "Bob B", "abc", "alice", "bob", "p1", "xyz">>

StrRank(s) == CHOOSE i \in 1..Len(StrOrder) : StrOrder[i] = s

Range(s) == {s[i] : i \in 1..Len(s)}

RECURSIVE SumSeq(_)
SumSeq(s) == IF s = <<>> THEN 0 ELSE Head(s) + SumSeq(Tail(s))

RECURSIVE SelectIdx(_, _, _)
\* the indices i of 1..n, ascending, with keep[i]
SelectIdx(keep, i, n) ==
    IF i > n THEN <<>>
    ELSE IF keep[i] THEN <<i>> \o SelectIdx(keep, i + 1, n)
    ELSE SelectIdx(keep, i + 1, n)

(* ------------------------------ paths ---------------------------------- *)

Absent == [exists |-> FALSE, header |-> <<>>, rows |-> <<>>]
Stale == [exists |-> TRUE, header |-> <<"stale">>, rows |-> <<>>]

(* --------------------------- load_raw_posts ---------------------------- *)

\* pd.DataFrame(data): one row per array element, one column per key seen in
\* any element; a key an element lacks is NaN (NaNum in a count column).
CountCols == {"likesCount", "commentsCount"}

Missing(c) == IF c \in CountCols THEN NaNum ELSE NaN

DataFrame(data) ==
    LET cols == UNION {DOMAIN data[i] : i \in 1..Len(data)}
    IN [columns |-> cols,
        rows |-> [i \in 1..Len(data) |->
                    [c \in cols |-> IF c \in DOMAIN data[i] THEN data[i][c]
                                    ELSE Missing(c)]]]

EmptyFrame == [columns |-> {}, rows |-> <<>>]
Unbound == [columns |-> <<>>, rows |-> <<>>]
NoError == [type |-> "", cols |-> <<>>]

\* mutant: a file that does not parse is read as an empty array
load_raw_posts_error_lenient(file) ==
    CASE file.kind = "absent" -> [type |-> "FileNotFoundError", cols |-> <<>>]
      [] file.kind = "not_utf8" -> [type |-> "UnicodeDecodeError", cols |-> <<>>]
      [] file.kind = "scalar" -> [type |-> "ValueError", cols |-> <<>>]
      [] OTHER -> NoError

load_raw_posts_error(file) ==
    CASE file.kind = "absent" -> [type |-> "FileNotFoundError", cols |-> <<>>]
      [] file.kind = "not_utf8" -> [type |-> "UnicodeDecodeError", cols |-> <<>>]
      [] file.kind = "invalid" -> [type |-> "JSONDecodeError", cols |-> <<>>]
      [] file.kind = "scalar" -> [type |-> "ValueError", cols |-> <<>>]
      [] OTHER -> NoError

load_raw_posts(file) == DataFrame(file.data)

(* -------------------------- build_posts_table -------------------------- *)

required_cols ==
    <<"id", "shortCode", "type", "productType", "caption", "hashtags",
      "mentions", "url", "likesCount", "commentsCount", "timestamp",
      "ownerUsername", "ownerFullName", "ownerId", "isCommentsDisabled",
      "inputUrl">>

\* mutant: the check stops at the first missing column
missing_first(df) ==
    LET m == SelectSeq(required_cols, LAMBDA c : c \notin df.columns)
    IN IF m = <<>> THEN <<>> ELSE <<Head(m)>>

missing(df) == SelectSeq(required_cols, LAMBDA c : c \notin df.columns)

rename_columns ==
    [id |-> "ig_post_id", shortCode |-> "shortcode", type |-> "post_type",
     productType |-> "product_type", url |-> "post_url", likesCount |-> "likes",
     commentsCount |-> "comments", ownerUsername |-> "owner_username",
     ownerFullName |-> "owner_full_name", ownerId |-> "owner_id",
     inputUrl |-> "owner_profile_url"]

col_order ==
    <<"post_id", "ig_post_id", "shortcode", "post_type", "product_type",
      "post_url", "owner_username", "owner_full_name", "owner_id",
      "owner_profile_url", "caption", "hashtags", "mentions", "likes",
      "comments", "engagement_raw", "timestamp", "isCommentsDisabled">>

\* df_raw[required_cols].copy()
select(df, cols) ==
    [columns |-> cols,
     rows |-> [i \in 1..Len(df.rows) |-> [c \in Range(cols) |-> df.rows[i][c]]]]

new_name(c) == IF c \in DOMAIN rename_columns THEN rename_columns[c] ELSE c

\* df.rename(columns=..., inplace=True)
rename(df) ==
    LET old(n) == CHOOSE c \in Range(df.columns) : new_name(c) = n
        names == {new_name(c) : c \in Range(df.columns)}
    IN [columns |-> [i \in 1..Len(df.columns) |-> new_name(df.columns[i])],
        rows |-> [i \in 1..Len(df.rows) |-> [n \in names |-> df.rows[i][old(n)]]]]

\* df[name] = values: a new column is appended, an existing one replaced
assign(df, name, values) ==
    [columns |-> IF name \in Range(df.columns) THEN df.columns
                 ELSE Append(df.columns, name),
     rows |-> [i \in 1..Len(df.rows) |->
                 [c \in Range(df.columns) \cup {name} |->
                     IF c = name THEN values[i] ELSE df.rows[i][c]]]]

\* mutant: the missing values stay missing
astype_str_keep_na(x) == x

\* Series.astype(str): str(x) of each element, the missing ones included
astype_str(x) ==
    CASE x = None -> "None"
      [] x = NaN -> "nan"
      [] OTHER -> x

\* pd.to_datetime(x, errors="coerce", utc=True)
to_datetime(x) ==
    CASE x = T1 -> 1
      [] x = T2 -> 2
      [] OTHER -> NaT

\* the decimal text of a followed by that of b (a, b < 100)
concat(a, b) == IF b < 10 THEN 10 * a + b ELSE 100 * a + b

\* mutant: a missing operand counts as 0
add_fillna(l, c) ==
    CASE l.k = "str" /\ c.k = "str" -> Txt(concat(l.n, c.n))
      [] l.k = "str" \/ c.k = "str" -> [k |-> "TypeError", n |-> 0]
      [] OTHER -> Num(l.n + c.n)

\* likes + comments on one row; a missing operand gives a missing sum
add(l, c) ==
    CASE l.k = "na" \/ c.k = "na" -> NaNum
      [] l.k = "int" /\ c.k = "int" -> Num(l.n + c.n)
      [] l.k = "str" /\ c.k = "str" -> Txt(concat(l.n, c.n))
      [] OTHER -> [k |-> "TypeError", n |-> 0]

\* int + str on some row: the column addition raises TypeError
add_raises(df) ==
    \E i \in 1..Len(df.rows) :
        add(df.rows[i]["likesCount"], df.rows[i]["commentsCount"]).k = "TypeError"

\* the codes lexsort_indexer gives the two sort keys: missing values last in
\* both, the timestamp's order reversed (ascending=[True, False])
username_code(r) ==
    IF isna(r["owner_username"]) THEN Len(StrOrder) + 1
    ELSE StrRank(r["owner_username"])

\* mutant: the timestamp sorts ascending
timestamp_code_ascending(r) ==
    IF r["timestamp"] = NaT THEN Len(StrOrder) ELSE r["timestamp"]

timestamp_code(r) == IF r["timestamp"] = NaT THEN 1 ELSE 0 - r["timestamp"]

\* a, b are <<code1, code2, row>>: the first key decides, then the second
sorts_before(a, b) == a[1] < b[1] \/ (a[1] = b[1] /\ a[2] < b[2])

RECURSIVE insert_sorted(_, _)
\* x goes before the first element that sorts strictly after it
insert_sorted(s, x) ==
    IF s = <<>> THEN <<x>>
    ELSE IF sorts_before(x, Head(s)) THEN <<x>> \o s
    ELSE <<Head(s)>> \o insert_sorted(Tail(s), x)

RECURSIVE lexsort(_)
\* np.lexsort: a stable sort, rows with equal codes keep their order
lexsort(s) ==
    IF s = <<>> THEN <<>>
    ELSE insert_sorted(lexsort(SubSeq(s, 1, Len(s) - 1)), s[Len(s)])

\* df.sort_values(["owner_username", "timestamp"], ascending=[True, False])
sort_values(df) ==
    LET keyed == [i \in 1..Len(df.rows) |->
                    <<username_code(df.rows[i]), timestamp_code(df.rows[i]), df.rows[i]>>]
        sorted == lexsort(keyed)
    IN [columns |-> df.columns, rows |-> [i \in 1..Len(sorted) |-> sorted[i][3]]]

build_posts_table_error(df) ==
    IF missing(df) # <<>> THEN [type |-> "ValueError", cols |-> missing(df)]
    ELSE IF add_raises(df) THEN [type |-> "TypeError", cols |-> <<>>]
    ELSE NoError

build_posts_table(df) ==
    LET d1 == rename(select(df, required_cols))
        d2 == assign(d1, "post_id",
                     [i \in 1..Len(d1.rows) |-> astype_str(d1.rows[i]["shortcode"])])
        d3 == assign(d2, "timestamp",
                     [i \in 1..Len(d2.rows) |-> to_datetime(d2.rows[i]["timestamp"])])
        d4 == assign(d3, "engagement_raw",
                     [i \in 1..Len(d3.rows) |-> add(d3.rows[i]["likes"], d3.rows[i]["comments"])])
    IN select(sort_values(d4), col_order)

(* -------------------------- build_users_table -------------------------- *)

group_keys == <<"owner_username", "owner_full_name", "owner_id", "owner_profile_url">>

user_cols ==
    group_keys \o
    <<"posts_count", "total_likes", "total_comments", "total_engagement",
      "avg_likes", "avg_comments", "avg_engagement",
      "first_post_timestamp", "last_post_timestamp">>

\* groupby(..., dropna=False): every missing value of a key is the one key NaN
key_of(r) == [i \in 1..Len(group_keys) |->
                 IF isna(r[group_keys[i]]) THEN NaN ELSE r[group_keys[i]]]

key_code(x) == IF isna(x) THEN Len(StrOrder) + 1 ELSE StrRank(x)

\* the order groupby(sort=True) gives the group keys: by component, NaN last
key_before(a, b) ==
    \E i \in 1..Len(group_keys) :
        /\ key_code(a[i]) < key_code(b[i])
        /\ \A j \in 1..(i - 1) : a[j] = b[j]

RECURSIVE sorted_keys(_)
sorted_keys(S) ==
    IF S = {} THEN <<>>
    ELSE LET m == CHOOSE x \in S : \A y \in S \ {x} : key_before(x, y)
         IN <<m>> \o sorted_keys(S \ {m})

\* mutant: the rows are grouped by owner_username alone
group_rows_by_username(df, key) ==
    LET idx == SelectIdx([i \in 1..Len(df.rows) |-> key_of(df.rows[i])[1] = key[1]],
                         1, Len(df.rows))
    IN [j \in 1..Len(idx) |-> df.rows[idx[j]]]

\* the rows of one group, in the table's order
group_rows(df, key) ==
    LET idx == SelectIdx([i \in 1..Len(df.rows) |-> key_of(df.rows[i]) = key],
                         1, Len(df.rows))
    IN [j \in 1..Len(idx) |-> df.rows[idx[j]]]

\* mutant: "count", every row of the group counted
nunique_count(rows, c) == Len(rows)

\* "nunique": the distinct values, the missing ones not counted
nunique(rows, c) == Cardinality({rows[i][c] : i \in 1..Len(rows)} \ {None, NaN})

\* "sum": the missing values are skipped, a group of none sums to 0
sum(rows, c) ==
    Num(SumSeq([i \in 1..Len(rows) |-> IF rows[i][c].k = "int" THEN rows[i][c].n ELSE 0]))

count(rows, c) == Cardinality({i \in 1..Len(rows) : rows[i][c].k = "int"})

\* "mean": the sum over the count of the values present (NaN when den = 0)
mean(rows, c) == [num |-> sum(rows, c).n, den |-> count(rows, c)]

present(rows, c) == {rows[i][c] : i \in 1..Len(rows)} \ {NaT}

\* mutant: NaT taken as the least timestamp
min_with_nat(rows, c) ==
    LET all == {rows[i][c] : i \in 1..Len(rows)}
    IN CHOOSE t \in all : \A u \in all : t <= u

\* "min" / "max": over the timestamps present, NaT when there is none
min(rows, c) ==
    IF present(rows, c) = {} THEN NaT
    ELSE CHOOSE t \in present(rows, c) : \A u \in present(rows, c) : t <= u

max(rows, c) ==
    IF present(rows, c) = {} THEN NaT
    ELSE CHOOSE t \in present(rows, c) : \A u \in present(rows, c) : t >= u

agg(key, rows) ==
    [c \in Range(user_cols) |->
        CASE c = "owner_username" -> key[1]
          [] c = "owner_full_name" -> key[2]
          [] c = "owner_id" -> key[3]
          [] c = "owner_profile_url" -> key[4]
          [] c = "posts_count" -> nunique(rows, "post_id")
          [] c = "total_likes" -> sum(rows, "likes")
          [] c = "total_comments" -> sum(rows, "comments")
          [] c = "total_engagement" -> sum(rows, "engagement_raw")
          [] c = "avg_likes" -> mean(rows, "likes")
          [] c = "avg_comments" -> mean(rows, "comments")
          [] c = "avg_engagement" -> mean(rows, "engagement_raw")
          [] c = "first_post_timestamp" -> min(rows, "timestamp")
          [] c = "last_post_timestamp" -> max(rows, "timestamp")]

\* mutant: dropna=True, the groups with a missing key component dropped
grouped_dropna(df) ==
    LET keys == sorted_keys({k \in {key_of(df.rows[i]) : i \in 1..Len(df.rows)} :
                               \A i \in 1..Len(group_keys) : ~isna(k[i])})
    IN [columns |-> user_cols,
        rows |-> [g \in 1..Len(keys) |-> agg(keys[g], group_rows(df, keys[g]))]]

\* groupby(...).agg(...).reset_index(): one row per group, in key order
grouped(df) ==
    LET keys == sorted_keys({key_of(df.rows[i]) : i \in 1..Len(df.rows)})
    IN [columns |-> user_cols,
        rows |-> [g \in 1..Len(keys) |-> agg(keys[g], group_rows(df, keys[g]))]]

\* a count column holding text: "mean" raises TypeError on its group
agg_raises(df) ==
    \E i \in 1..Len(df.rows) : \E c \in {"likes", "comments", "engagement_raw"} :
        df.rows[i][c].k = "str"

build_users_table_error(df) ==
    IF agg_raises(df) THEN [type |-> "TypeError", cols |-> <<>>] ELSE NoError

Perms(n) == {p \in [1..n -> 1..n] : \A i, j \in 1..n : p[i] = p[j] => i = j}

\* users.sort_values("total_engagement", ascending=False): the default
\* quicksort is not stable, so rows of equal total_engagement come in any order
sort_users(df) ==
    {[columns |-> df.columns, rows |-> [i \in 1..Len(df.rows) |-> df.rows[p[i]]]] :
        p \in {q \in Perms(Len(df.rows)) :
                 \A i \in 1..(Len(df.rows) - 1) :
                     df.rows[q[i]]["total_engagement"].n
                         >= df.rows[q[i + 1]]["total_engagement"].n}}

\* the tables build_users_table may return
build_users_table(df) == sort_users(grouped(df))

(* ------------------------------- to_csv -------------------------------- *)

\* DataFrame.to_csv(path, index=False): the header line, then one line per row
to_csv(df) == [exists |-> TRUE, header |-> df.columns, rows |-> df.rows]

(* ------------------------------- inputs -------------------------------- *)

full_name(un) == CASE un = "alice" -> "Alice A" [] un = "bob" -> "Bob B" [] OTHER -> None
owner_id(un) == CASE un = "alice" -> "1001" [] un = "bob" -> "1002" [] OTHER -> None

\* one element of the JSON array: the required keys and one the build ignores
Post(sc, un, purl, lk, cm, ts) ==
    [id |-> "1", shortCode |-> sc, type |-> "Image", productType |-> "feed",
     caption |-> "hi", hashtags |-> <<>>, mentions |-> <<>>, url |-> "u1",
     likesCount |-> lk, commentsCount |-> cm, timestamp |-> ts,
     ownerUsername |-> un, ownerFullName |-> full_name(un), ownerId |-> owner_id(un),
     isCommentsDisabled |-> FALSE, inputUrl |-> purl, displayUrl |-> "d1"]

Posts(SC, UN, PURL, LK, CM, TS) ==
    {Post(sc, un, purl, lk, cm, ts) :
        sc \in SC, un \in UN, purl \in PURL, lk \in LK, cm \in CM, ts \in TS}

\* the families of posts the arrays are drawn from: counts of every kind;
\* usernames and timestamps; shortcodes; owner tuples; counts per owner
PostsCounts ==
    Posts({"abc"}, {"alice"}, {"p1"}, {Num(10), NaNum, Txt(7)}, {Num(2), Txt(1)}, {T1})
PostsOrder ==
    Posts({"abc"}, {"alice", None}, {"p1"}, {Num(10)}, {Num(2)}, {"", T1, T2})
PostsCodes ==
    Posts({"abc", "xyz", None}, {"alice", "bob"}, {"p1"}, {Num(10)}, {Num(2)}, {T1})
PostsOwners ==
    Posts({"abc", "xyz"}, {"alice", None}, {"p1", None}, {Num(10)}, {Num(2)}, {T1})
PostsTotals ==
    Posts({"abc"}, {"alice", "bob"}, {"p1"}, {Num(10), NaNum}, {Num(3), NaNum}, {T1})

Families == {PostsCounts, PostsOrder, PostsCodes, PostsOwners, PostsTotals}

Arrays(P) == UNION {[1..n -> P] : n \in 0..MaxRows}

\* the array with the keys K dropped from its first element, or from every one
without(data, K, every) ==
    [i \in 1..Len(data) |->
        IF every \/ i = 1
        THEN [c \in DOMAIN data[i] \ K |-> data[i][c]]
        ELSE data[i]]

Dropped == {{"shortCode"}, {"likesCount", "inputUrl"}, {"timestamp", "ownerUsername", "id"}}

PostsPartial == Posts({"abc"}, {"alice", "bob"}, {"p1"}, {Num(10)}, {Num(2)}, {T1})

Files ==
    {[kind |-> k, data |-> <<>>] : k \in {"absent", "not_utf8", "invalid", "scalar"}}
    \cup {[kind |-> "array", data |-> d] : d \in UNION {Arrays(P) : P \in Families}}
    \cup {[kind |-> "array", data |-> without(d, K, every)] :
            d \in Arrays(PostsPartial), K \in Dropped, every \in BOOLEAN}

(* -------------------------------- main --------------------------------- *)

Init ==
    /\ pc = "load"
    /\ raw_json \in Files
    /\ \E f \in {Absent, Stale} : posts_csv = f /\ users_csv = f
    /\ df_raw = EmptyFrame
    /\ df_posts = Unbound
    /\ df_users = Unbound
    /\ error = NoError

\* df_raw = load_raw_posts(RAW_POSTS_JSON)
Load ==
    /\ pc = "load"
    /\ load_raw_posts_error(raw_json) = NoError
    /\ df_raw' = load_raw_posts(raw_json)
    /\ pc' = "build_posts"
    /\ UNCHANGED <<raw_json, df_posts, df_users, posts_csv, users_csv, error>>

LoadFail ==
    /\ pc = "load"
    /\ load_raw_posts_error(raw_json) # NoError
    /\ error' = load_raw_posts_error(raw_json)
    /\ pc' = "failed"
    /\ UNCHANGED <<raw_json, df_raw, df_posts, df_users, posts_csv, users_csv>>

\* df_posts = build_posts_table(df_raw)
BuildPosts ==
    /\ pc = "build_posts"
    /\ build_posts_table_error(df_raw) = NoError
    /\ df_posts' = build_posts_table(df_raw)
    /\ pc' = "write_posts"
    /\ UNCHANGED <<raw_json, df_raw, df_users, posts_csv, users_csv, error>>

BuildPostsFail ==
    /\ pc = "build_posts"
    /\ build_posts_table_error(df_raw) # NoError
    /\ error' = build_posts_table_error(df_raw)
    /\ pc' = "failed"
    /\ UNCHANGED <<raw_json, df_raw, df_posts, df_users, posts_csv, users_csv>>

\* mutant: posts.csv is not written before the User table is built
WritePosts_deferred ==
    /\ pc = "write_posts"
    /\ pc' = "build_users"
    /\ UNCHANGED <<raw_json, df_raw, df_posts, df_users, posts_csv, users_csv, error>>

\* df_posts.to_csv(POSTS_CSV, index=False)
WritePosts ==
    /\ pc = "write_posts"
    /\ posts_csv' = to_csv(df_posts)
    /\ pc' = "build_users"
    /\ UNCHANGED <<raw_json, df_raw, df_posts, df_users, users_csv, error>>

\* df_users = build_users_table(df_posts)
BuildUsers ==
    /\ pc = "build_users"
    /\ build_users_table_error(df_posts) = NoError
    /\ df_users' \in build_users_table(df_posts)
    /\ pc' = "write_users"
    /\ UNCHANGED <<raw_json, df_raw, df_posts, posts_csv, users_csv, error>>

BuildUsersFail ==
    /\ pc = "build_users"
    /\ build_users_table_error(df_posts) # NoError
    /\ error' = build_users_table_error(df_posts)
    /\ pc' = "failed"
    /\ UNCHANGED <<raw_json, df_raw, df_posts, df_users, posts_csv, users_csv>>

\* df_users.to_csv(USERS_CSV, index=False)
WriteUsers ==
    /\ pc = "write_users"
    /\ users_csv' = to_csv(df_users)
    /\ pc' = "done"
    /\ UNCHANGED <<raw_json, df_raw, df_posts, df_users, posts_csv, error>>

Next ==
    \/ Load
    \/ LoadFail
    \/ BuildPosts
    \/ BuildPostsFail
    \/ WritePosts
    \/ BuildUsers
    \/ BuildUsersFail
    \/ WriteUsers

Spec == Init /\ [][Next]_vars

(* ----------------------------- properties ------------------------------ *)

PostsBuilt == df_posts.columns = col_order
UsersBuilt == df_users.columns = user_cols
\* build_posts_table / build_users_table has just returned
PostsReturned == pc = "write_posts" /\ PostsBuilt
UsersReturned == pc = "write_users" /\ UsersBuilt
NRaw == Len(df_raw.rows)
NPosts == Len(df_posts.rows)
NUsers == Len(df_users.rows)

KeysOf(file) == UNION {DOMAIN file.data[i] : i \in 1..Len(file.data)}
LacksColumns(file) ==
    file.kind = "array" /\ Range(required_cols) \ KeysOf(file) # {}
\* where a column stands in required_cols
place(c) == CHOOSE k \in 1..Len(required_cols) : required_cols[k] = c
FilesUntouched == posts_csv' = posts_csv /\ users_csv' = users_csv

\* C1 as stated: a raw input lacking a required column makes the build fail
\* with a SchemaValidationError listing exactly the missing columns, and no
\* step of the run creates or modifies posts.csv or users.csv.
C1_SchemaValidationError ==
    [][LacksColumns(raw_json) =>
         /\ FilesUntouched
         /\ pc = "build_posts" =>
              /\ pc' = "failed"
              /\ error'.type = "SchemaValidationError"
              /\ Range(error'.cols) = Range(required_cols) \ df_raw.columns]_vars

\* C1 amended: a raw input lacking a required column makes the build fail
\* with a ValueError listing exactly the missing columns, each once and in
\* the order of required_cols, and no step of the run creates or modifies
\* posts.csv or users.csv.
C1_MissingColumnsValueError ==
    [][LacksColumns(raw_json) =>
         /\ FilesUntouched
         /\ pc' \in {"build_posts", "failed"}
         /\ pc = "build_posts" =>
              /\ pc' = "failed"
              /\ error'.type = "ValueError"
              /\ Range(error'.cols) = Range(required_cols) \ df_raw.columns
              /\ Len(error'.cols) = Cardinality(Range(error'.cols))
              /\ \A i \in 1..(Len(error'.cols) - 1) :
                    place(error'.cols[i]) < place(error'.cols[i + 1])]_vars

\* C1 witness: a two-row table lacking two columns has failed the build,
\* the stale output files as they were
C1_Witness ==
    /\ pc = "failed"
    /\ error.type = "ValueError"
    /\ Len(error.cols) = 2
    /\ NRaw = 2
    /\ posts_csv = Stale
    /\ users_csv = Stale

NotJson == {"not_utf8", "invalid"}

\* C2 as stated: an absent input file, or one that is not valid JSON, makes
\* load_raw_posts fail with a DataFormatError; main stops there, the builders
\* never run and neither output file is written.
C2_DataFormatError ==
    [][raw_json.kind \in {"absent"} \cup NotJson =>
         /\ FilesUntouched
         /\ pc' = "failed"
         /\ error'.type = "DataFormatError"
         /\ df_posts' = Unbound /\ df_users' = Unbound]_vars

\* C2 amended: an absent input file makes load_raw_posts fail with a
\* FileNotFoundError, a file that is not valid JSON with a JSONDecodeError, or
\* with a UnicodeDecodeError when its bytes are not UTF-8; main stops there,
\* the builders never run and neither output file is written.
C2_LoadFailureAborts ==
    [][raw_json.kind \in {"absent"} \cup NotJson =>
         /\ FilesUntouched
         /\ pc' = "failed"
         /\ error'.type = CASE raw_json.kind = "absent" -> "FileNotFoundError"
                            [] raw_json.kind = "not_utf8" -> "UnicodeDecodeError"
                            [] raw_json.kind = "invalid" -> "JSONDecodeError"
         /\ df_posts' = Unbound /\ df_users' = Unbound]_vars

\* C2 witness: the run over a file that is not JSON has stopped at the load,
\* the stale output files as they were
C2_Witness ==
    /\ pc = "failed"
    /\ raw_json.kind = "invalid"
    /\ error.type = "JSONDecodeError"
    /\ posts_csv = Stale
    /\ users_csv = Stale

un(i) == df_posts.rows[i]["owner_username"]
ts(i) == df_posts.rows[i]["timestamp"]
same_username(i, j) == un(i) = un(j) \/ (isna(un(i)) /\ isna(un(j)))

\* usernames ascending from row i to the next, a missing username after all
UsernamesAscend(i) ==
    /\ isna(un(i)) => isna(un(i + 1))
    /\ ~isna(un(i)) /\ ~isna(un(i + 1)) => StrRank(un(i)) <= StrRank(un(i + 1))

\* t >= u as timestamps compare: false when either is missing
ts_ge(t, u) == t # NaT /\ u # NaT /\ t >= u

\* C3 as stated: in the Post table, rows with a null username or timestamp
\* included, adjacent rows of one username have the earlier row's timestamp
\* >= the later row's, and usernames ascend.
C3_SortedDescending ==
    PostsReturned =>
        \A i \in 1..(NPosts - 1) :
            /\ UsernamesAscend(i)
            /\ same_username(i, i + 1) => ts_ge(ts(i), ts(i + 1))

\* C3 amended: usernames ascend with the rows of a null username last; among
\* adjacent rows of one username (null usernames counting as one) the
\* timestamps present descend and the rows of a null timestamp come after them.
C3_SortedNullsLast ==
    PostsReturned =>
        \A i \in 1..(NPosts - 1) :
            /\ UsernamesAscend(i)
            /\ same_username(i, i + 1) =>
                 /\ ts(i) = NaT => ts(i + 1) = NaT
                 /\ ts(i) # NaT /\ ts(i + 1) # NaT => ts(i) >= ts(i + 1)

\* C3 witness: a sorted table of three rows, a null timestamp after a
\* timestamp of the same username and a null username last, not in the
\* order of the raw rows
C3_Witness ==
    /\ PostsBuilt
    /\ NPosts = 3
    /\ un(1) = "alice" /\ un(2) = "alice" /\ isna(un(3))
    /\ ts(1) = 2 /\ ts(2) = NaT
    /\ \E i \in 1..NRaw : df_raw.rows[i]["ownerUsername"] = "alice" /\ i > 1
                          /\ isna(df_raw.rows[1]["ownerUsername"])

owner(r) == [i \in 1..Len(group_keys) |-> r[group_keys[i]]]
same_owner(a, b) ==
    \A i \in 1..Len(group_keys) : a[i] = b[i] \/ (isna(a[i]) /\ isna(b[i]))
posts_of(u) == {i \in 1..NPosts : same_owner(owner(u), owner(df_posts.rows[i]))}
PostIds == {df_posts.rows[i]["post_id"] : i \in 1..NPosts}
posts_counts == [j \in 1..NUsers |-> df_users.rows[j]["posts_count"]]

\* C4 as stated: the posts_count of the User rows sum to the number of
\* distinct post_id values of the Post table, also when a post_id occurs under
\* several owner tuples or in duplicate rows.
C4_SumEqualsDistinctPosts ==
    UsersReturned => SumSeq(posts_counts) = Cardinality(PostIds)

\* one owner tuple per post_id
OneOwnerPerPost ==
    \A i, j \in 1..NPosts :
        df_posts.rows[i]["post_id"] = df_posts.rows[j]["post_id"]
            => same_owner(owner(df_posts.rows[i]), owner(df_posts.rows[j]))

\* C4 amended: each User row's posts_count is the number of distinct post_id
\* values among its own Post rows, so the sum counts a post_id once per owner
\* tuple it occurs under; it equals the number of distinct post_id values
\* exactly when no post_id occurs under two owner tuples.
C4_SumCountsPostsPerOwner ==
    UsersReturned =>
        /\ \A j \in 1..NUsers :
              df_users.rows[j]["posts_count"] =
                  Cardinality({df_posts.rows[i]["post_id"] : i \in posts_of(df_users.rows[j])})
        /\ OneOwnerPerPost <=> SumSeq(posts_counts) = Cardinality(PostIds)

\* C4 witness: three Post rows of one post_id, two of them duplicates and
\* the third under another owner tuple: the counts sum to 2
C4_Witness ==
    /\ UsersBuilt
    /\ NPosts = 3
    /\ ~OneOwnerPerPost
    /\ \E i, j \in 1..NPosts : i # j /\ df_posts.rows[i] = df_posts.rows[j]
    /\ SumSeq(posts_counts) = 2
    /\ Cardinality(PostIds) = 1

numeric(c) == c.k \in {"int", "na"}
counts_of(rows, l, c) == [i \in 1..Len(rows) |-> <<rows[i][l], rows[i][c]>>]
times(s, x) == Cardinality({i \in 1..Len(s) : s[i] = x})

\* C5: every Post row has engagement_raw = likes + comments, the row's likes
\* and comments being a raw row's likesCount and commentsCount; the sum is
\* null when either is null, and the build does not fail on such a row.
C5_EngagementIsLikesPlusComments ==
    /\ pc = "build_posts" /\ missing(df_raw) = <<>>
         /\ (\A i \in 1..NRaw : numeric(df_raw.rows[i]["likesCount"])
                                /\ numeric(df_raw.rows[i]["commentsCount"]))
         => build_posts_table_error(df_raw) = NoError
    /\ PostsReturned =>
         /\ \A i \in 1..NPosts :
              LET r == df_posts.rows[i] IN
              /\ r["likes"].k = "int" /\ r["comments"].k = "int"
                   => r["engagement_raw"] = [k |-> "int", n |-> r["likes"].n + r["comments"].n]
              /\ r["likes"].k = "na" \/ r["comments"].k = "na"
                   => r["engagement_raw"].k = "na"
         /\ \A x \in Range(counts_of(df_raw.rows, "likesCount", "commentsCount")) :
              times(counts_of(df_posts.rows, "likes", "comments"), x)
                  = times(counts_of(df_raw.rows, "likesCount", "commentsCount"), x)

\* C5 witness: a Post table with a null likes, a null comments and a row
\* whose sum is 13
C5_Witness ==
    /\ PostsBuilt
    /\ NPosts = 3
    /\ \E i, j, k \in 1..NPosts :
          /\ df_posts.rows[i]["likes"].k = "na" /\ df_posts.rows[i]["comments"].k = "int"
          /\ df_posts.rows[j]["likes"].k = "int" /\ df_posts.rows[j]["comments"].k = "na"
          /\ df_posts.rows[k]["engagement_raw"] = [k |-> "int", n |-> 13]

RECURSIVE total(_, _)
\* the sum of column c over the Post rows I, the missing values skipped
total(I, c) ==
    IF I = {} THEN 0
    ELSE LET i == CHOOSE x \in I : TRUE
             v == df_posts.rows[i][c]
         IN (IF v.k = "int" THEN v.n ELSE 0) + total(I \ {i}, c)

\* C6: each User row's total_engagement, total_likes and total_comments are
\* the sums of engagement_raw, likes and comments over exactly the Post rows
\* of its owner tuple, the null values skipped.
C6_TotalsAreGroupSums ==
    UsersReturned =>
        \A j \in 1..NUsers :
            LET u == df_users.rows[j] IN
            /\ u["total_engagement"] = [k |-> "int", n |-> total(posts_of(u), "engagement_raw")]
            /\ u["total_likes"] = [k |-> "int", n |-> total(posts_of(u), "likes")]
            /\ u["total_comments"] = [k |-> "int", n |-> total(posts_of(u), "comments")]

\* C6 witness: two users over three posts, one with two posts of which one
\* has null likes
C6_Witness ==
    /\ UsersBuilt
    /\ NUsers = 2
    /\ NPosts = 3
    /\ \E j \in 1..NUsers :
          /\ Cardinality(posts_of(df_users.rows[j])) = 2
          /\ df_users.rows[j]["total_likes"].n = 10
          /\ df_users.rows[j]["total_comments"].n = 6
          /\ df_users.rows[j]["total_engagement"].n = 13

users_of(r) == {j \in 1..NUsers : same_owner(owner(df_users.rows[j]), owner(r))}

\* C7: the User table has exactly one row per distinct owner tuple of the
\* Post table, null being a key value like any other: every Post row, also
\* one with a null key component, belongs to exactly one User row, and every
\* User row has a Post row.
C7_OneUserRowPerOwnerTuple ==
    UsersReturned =>
        /\ \A i \in 1..NPosts : Cardinality(users_of(df_posts.rows[i])) = 1
        /\ \A j \in 1..NUsers : posts_of(df_users.rows[j]) # {}

\* C7 witness: three Post rows in three groups, one of a null username and
\* one of a null profile URL
C7_Witness ==
    /\ UsersBuilt
    /\ NPosts = 3
    /\ NUsers = 3
    /\ \E i, j \in 1..NPosts :
          /\ isna(df_posts.rows[i]["owner_username"])
          /\ isna(df_posts.rows[j]["owner_profile_url"])
          /\ df_posts.rows[j]["owner_username"] = "alice"
    /\ \E i \in 1..NPosts :
          /\ df_posts.rows[i]["owner_username"] = "alice"
          /\ df_posts.rows[i]["owner_profile_url"] = "p1"

unparsable(x) == x \notin {T1, T2}
stamps(I) == {df_posts.rows[i]["timestamp"] : i \in I} \ {NaT}

\* C8: a raw row with an unparsable timestamp does not fail the build; it
\* gives a Post row with a null timestamp, which still counts in its user's
\* total_likes and total_comments, while first_post_timestamp and
\* last_post_timestamp are the min and max of the user's non-null timestamps.
C8_UnparsableTimestampIsNull ==
    /\ pc = "build_posts" /\ build_posts_table_error(df_raw) # NoError
         => \/ Range(required_cols) \ df_raw.columns # {}
            \/ \E i \in 1..NRaw : ~numeric(df_raw.rows[i]["likesCount"])
                                  \/ ~numeric(df_raw.rows[i]["commentsCount"])
    /\ PostsReturned =>
         Cardinality({i \in 1..NPosts : ts(i) = NaT})
             = Cardinality({i \in 1..NRaw : unparsable(df_raw.rows[i]["timestamp"])})
    /\ UsersReturned =>
         \A j \in 1..NUsers :
             LET u == df_users.rows[j]
                 T == stamps(posts_of(u))
             IN /\ u["total_likes"].n = total(posts_of(u), "likes")
                /\ u["total_comments"].n = total(posts_of(u), "comments")
                /\ T = {} => /\ u["first_post_timestamp"] = NaT
                             /\ u["last_post_timestamp"] = NaT
                /\ T # {} => /\ u["first_post_timestamp"] \in T
                             /\ u["last_post_timestamp"] \in T
                             /\ \A t \in T : /\ u["first_post_timestamp"] <= t
                                             /\ t <= u["last_post_timestamp"]

\* C8 witness: one user of three posts, one of them of an unparsable
\* timestamp, with its likes in the total and the first and last timestamps
\* those present
C8_Witness ==
    /\ UsersBuilt
    /\ NPosts = 3
    /\ \E j \in 1..NUsers :
          /\ posts_of(df_users.rows[j]) = 1..3
          /\ \E i \in 1..3 : ts(i) = NaT /\ df_posts.rows[i]["likes"].n = 10
          /\ df_users.rows[j]["total_likes"].n = 30
          /\ df_users.rows[j]["first_post_timestamp"] = 1
          /\ df_users.rows[j]["last_post_timestamp"] = 2
    /\ \E i \in 1..NRaw : df_raw.rows[i]["timestamp"] = ""

PostsWritten == posts_csv.exists /\ posts_csv.header = col_order /\ posts_csv.rows = df_posts.rows
MainOrder ==
    {<<"load", "build_posts">>, <<"build_posts", "write_posts">>,
     <<"write_posts", "build_users">>, <<"build_users", "write_users">>,
     <<"write_users", "done">>}

\* C9: main runs load, build posts, write posts.csv, build users, write
\* users.csv in that order: posts.csv is written in full before the User
\* table is built, users.csv is written only once build_users_table has
\* returned, and a failure in the aggregation leaves posts.csv written and
\* users.csv as it was.
C9_MainStepOrder ==
    [][/\ pc' # "failed" => <<pc, pc'>> \in MainOrder
       /\ posts_csv' # posts_csv =>
            /\ pc = "write_posts" /\ PostsBuilt
            /\ posts_csv' = [exists |-> TRUE, header |-> col_order, rows |-> df_posts.rows]
       /\ df_users' # df_users => pc = "build_users" /\ PostsWritten
       /\ users_csv' # users_csv =>
            /\ pc = "write_users" /\ UsersBuilt
            /\ users_csv' = [exists |-> TRUE, header |-> user_cols, rows |-> df_users.rows]
       /\ pc = "build_users" /\ pc' = "failed" =>
            /\ PostsWritten /\ posts_csv' = posts_csv
            /\ users_csv' = users_csv /\ users_csv \in {Absent, Stale}]_vars

\* C9 witness: the aggregation has failed on counts given as text:
\* posts.csv holds the Post table and users.csv is the stale file
C9_Witness ==
    /\ pc = "failed"
    /\ error.type = "TypeError"
    /\ PostsBuilt
    /\ PostsWritten
    /\ NPosts = 2
    /\ users_csv = Stale

str(x) == CASE x = None -> "None" [] x = NaN -> "nan" [] OTHER -> x

\* the Post row p is the raw row r: its post_id the string form of r's
\* shortCode, its other cells r's
is_row_of(p, r) ==
    /\ p["post_id"] = str(r["shortCode"])
    /\ p["shortcode"] = r["shortCode"]
    /\ p["owner_username"] = r["ownerUsername"]
    /\ p["owner_profile_url"] = r["inputUrl"]
    /\ p["likes"] = r["likesCount"]
    /\ p["comments"] = r["commentsCount"]
    /\ unparsable(r["timestamp"]) <=> p["timestamp"] = NaT
    /\ r["timestamp"] = T1 <=> p["timestamp"] = 1
    /\ r["timestamp"] = T2 <=> p["timestamp"] = 2

\* C10: for a raw table with every required column build_posts_table
\* returns exactly one Post row per raw row, none dropped, duplicated or
\* merged; each post_id is the string form of the raw row's shortCode and
\* is not null; the raw table is left as load_raw_posts returned it.
C10_OnePostRowPerRawRow ==
    PostsReturned =>
        /\ NPosts = NRaw
        /\ \E q \in [1..NPosts -> 1..NRaw] :
              /\ \A i, j \in 1..NPosts : q[i] = q[j] => i = j
              /\ \A i \in 1..NPosts : is_row_of(df_posts.rows[i], df_raw.rows[q[i]])
        /\ \A i \in 1..NPosts : ~isna(df_posts.rows[i]["post_id"])
        /\ df_raw.columns = KeysOf(raw_json)
        /\ NRaw = Len(raw_json.data)
        /\ \A i \in 1..NRaw : \A c \in DOMAIN raw_json.data[i] :
              df_raw.rows[i][c] = raw_json.data[i][c]

\* C10 witness: three raw rows, one of a null shortCode, and their three
\* Post rows in sorted order
C10_Witness ==
    /\ PostsBuilt
    /\ NPosts = 3
    /\ df_posts.rows[1]["post_id"] = "None"
    /\ df_posts.rows[2]["post_id"] = "abc"
    /\ df_posts.rows[3]["post_id"] = "xyz"
    /\ df_raw.rows[1]["shortCode"] = "xyz"
    /\ df_raw.rows[2]["shortCode"] = None

====
